---- MODULE Spec2Model ----
(***************************************************************************)
(* A model of the cli_bridge crate of ThreadSpace-Nexus:                   *)
(*   - subprocess.rs   spawn_subprocess: one child process per call, the   *)
(*                     request written to its stdin, the wait raced        *)
(*                     against the configured timeout, stdout parsed;      *)
(*   - lib.rs          BridgeError, CapabilityResult, SubprocessConfig;    *)
(*   - codexify.rs, ritual_engine.rs   the tool adapters;                  *)
(*   - manifest.rs     Manifest, load_manifest, save_manifest.             *)
(* The child process and the operating system (pipes, timer) are the       *)
(* environment: the child reads, writes, closes its stdin and exits in any *)
(* order.  Time is abstracted: the timer of tokio::time::timeout may fire  *)
(* at any moment of the wait.                                              *)
(***************************************************************************)
EXTENDS Integers, Sequences, FiniteSets, TLC

(***************************************************************************)
(* Bounds of the model.                                                    *)
(***************************************************************************)
\* capacity of an OS pipe (bytes for stdin and stderr, chunks for stdout)
PipeCap == 1
\* largest serialized request, in bytes
MaxReq == 2
\* most chunks a child writes to its stdout
MaxOut == 2
\* most bytes a child writes to its stderr
MaxErr == 1

(***************************************************************************)
(* Option<T>                                                               *)
(***************************************************************************)
None == [some |-> FALSE]
Some(v) == [some |-> TRUE, val |-> v]

Min(a, b) == IF a < b THEN a ELSE b

(***************************************************************************)
(* lib.rs: BridgeError, BridgeResult, SubprocessConfig, CapabilityResult   *)
(***************************************************************************)
Io(d) == [kind |-> "Io", detail |-> d]
Json(d) == [kind |-> "Json", detail |-> d]
Timeout(d) == [kind |-> "Timeout", duration |-> d]
ProcessFailed(c) == [kind |-> "ProcessFailed", code |-> c]
InvalidOutput(d) == [kind |-> "InvalidOutput", detail |-> d]

\* BridgeResult<T> = Result<T, BridgeError>; Pending: the call has not returned
Ok(v) == [tag |-> "Ok", value |-> v]
Err(e) == [tag |-> "Err", err |-> e]
Pending == [tag |-> "Pending"]

\* Display of BridgeError (the #[error("...")] attributes); durations in seconds
to_string(e) ==
    CASE e.kind = "Io" -> "IO error: " \o e.detail
      [] e.kind = "Json" -> "JSON serialization error: " \o e.detail
      [] e.kind = "Timeout" -> "Process timeout after " \o ToString(e.duration) \o "s"
      [] e.kind = "ProcessFailed" ->
             "Process exited with non-zero status: " \o ToString(e.code)
      [] e.kind = "InvalidOutput" -> "Invalid output format: " \o e.detail

\* SubprocessConfig; working_dir and env_vars only shape the child's
\* environment and are left to the child's nondeterminism
SubprocessConfig(t, l) == [timeout |-> t, log_io |-> l]
SubprocessConfig_default == SubprocessConfig(30, TRUE)

\* CapabilityResult::success / CapabilityResult::error; of the metadata the
\* tool name and the version are kept (duration and timestamp are clock reads)
CapabilityResult_success(data, tool_name, version) ==
    [success |-> TRUE, data |-> Some(data), error |-> None,
     metadata |-> [tool_name |-> tool_name, version |-> version]]

\* (mutant) the error constructor leaves success set
CapabilityResult_error_success_set(error, tool_name, version) ==
    [success |-> TRUE, data |-> None, error |-> Some(error),
     metadata |-> [tool_name |-> tool_name, version |-> version]]

CapabilityResult_error(error, tool_name, version) ==
    [success |-> FALSE, data |-> None, error |-> Some(error),
     metadata |-> [tool_name |-> tool_name, version |-> version]]

(***************************************************************************)
(* What a child writes to its stdout, chunk by chunk, and its parse as the *)
(* response type O (TestOutput of subprocess.rs: {response: String}).      *)
(***************************************************************************)
DocHello == "{\"response\":\"hello\"}"
DocBye == "{\"response\":\"bye\"}"
WrongShape == "[1]"
NotJson == "not json"
Newline == "\n"
Chunks == {DocHello, DocBye, WrongShape, NotJson, Newline}

\* the value a well-formed chunk of the expected shape denotes
DocValue(c) == IF c = DocHello THEN [response |-> "hello"] ELSE [response |-> "bye"]

IsWhitespace(c) == c = Newline

\* serde_json::from_str::<O>: skip whitespace, read one value as O, skip
\* whitespace, demand the end of the input
from_str(stdout) ==
    LET toks == SelectSeq(stdout, LAMBDA c : ~IsWhitespace(c)) IN
    IF toks = <<>> THEN Err(Json("EOF while parsing a value"))
    ELSE IF Head(toks) = NotJson THEN Err(Json("expected value"))
    ELSE IF Head(toks) = WrongShape THEN Err(Json("invalid type"))
    ELSE IF Len(toks) > 1 THEN Err(Json("trailing characters"))
    ELSE Ok(DocValue(Head(toks)))

(***************************************************************************)
(* manifest.rs: Manifest, InputSchema, OutputSchema and their JSON form.   *)
(* A JSON text is represented by the serde_json::Value it denotes.         *)
(***************************************************************************)
JNull == [t |-> "null"]
JBool(b) == [t |-> "bool", b |-> b]
JNum(n) == [t |-> "num", n |-> n]
JStr(x) == [t |-> "str", s |-> x]
JArr(xs) == [t |-> "arr", items |-> xs]
JObj(f) == [t |-> "obj", fields |-> f]

InputSchema(ty, description, required, default) ==
    [type |-> ty, description |-> description, required |-> required,
     default |-> default]

OutputSchema(ty, description) == [type |-> ty, description |-> description]

\* manifest.rs lines 51-112
generate_codexify_manifest ==
    [name |-> "codexify",
     version |-> "1.0.0",
     description |-> "Converts local files and memory logs into structured knowledge graph entries",
     language |-> "python",
     entry_point |-> "guardian-backend_v2/codexify/main.py",
     capabilities |-> <<"fs:read", "fs:write", "memory:index", "llm">>,
     schema |-> Some("schemas/codexify.json"),
     timeout_sec |-> 60,
     requirements |-> ("python" :> ">=3.10") @@ ("openai" :> "*")
                      @@ ("chromadb" :> "*") @@ ("tiktoken" :> "*"),
     inputs |->
        ("file_path" :> InputSchema("string",
             "Path to the file or folder to codexify", TRUE, None))
        @@ ("tags" :> InputSchema("array",
             "Optional tags to associate with this node", FALSE,
             Some(JArr(<<>>)))),
     outputs |->
        ("node_id" :> OutputSchema("string",
             "ID of the created or updated Codex node"))
        @@ ("summary" :> OutputSchema("string",
             "Summary of the codified input"))]

\* manifest.rs lines 115-174
generate_ritual_engine_manifest ==
    [name |-> "ritual_engine",
     version |-> "1.0.0",
     description |-> "Executes memory and ritual operations for ThreadSpace",
     language |-> "python",
     entry_point |-> "guardian-backend_v2/ritual_engine/main.py",
     capabilities |-> <<"memory:process", "ritual:execute", "sync:memory">>,
     schema |-> Some("schemas/ritual_engine.json"),
     timeout_sec |-> 120,
     requirements |-> ("python" :> ">=3.10") @@ ("requests" :> "*")
                      @@ ("pyyaml" :> "*"),
     inputs |->
        ("ritual_type" :> InputSchema("string",
             "Type of ritual to perform", TRUE, None))
        @@ ("parameters" :> InputSchema("object",
             "Parameters for the ritual", TRUE, None)),
     outputs |->
        ("ritual_id" :> OutputSchema("string", "ID of the created ritual"))
        @@ ("status" :> OutputSchema("string",
             "Status of the ritual execution"))]

\* Serialize of Option<T>: None is written as null, Some(x) as x is written
ser_Option(o, ser(_)) == IF o.some THEN ser(o.val) ELSE JNull

\* Serialize of InputSchema (derive); `default` is an Option<Value>
ser_InputSchema(i) ==
    JObj([type |-> JStr(i.type),
          description |-> JStr(i.description),
          required |-> JBool(i.required),
          default |-> ser_Option(i.default, LAMBDA x : x)])

\* Serialize of OutputSchema (derive)
ser_OutputSchema(o) ==
    JObj([type |-> JStr(o.type), description |-> JStr(o.description)])

\* Serialize of Manifest (derive)
ser_Manifest(m) ==
    JObj([name |-> JStr(m.name),
          version |-> JStr(m.version),
          description |-> JStr(m.description),
          language |-> JStr(m.language),
          entry_point |-> JStr(m.entry_point),
          capabilities |-> JArr([i \in DOMAIN m.capabilities |->
                                    JStr(m.capabilities[i])]),
          schema |-> ser_Option(m.schema, JStr),
          timeout_sec |-> JNum(m.timeout_sec),
          requirements |-> JObj([k \in DOMAIN m.requirements |->
                                    JStr(m.requirements[k])]),
          inputs |-> JObj([k \in DOMAIN m.inputs |->
                              ser_InputSchema(m.inputs[k])]),
          outputs |-> JObj([k \in DOMAIN m.outputs |->
                               ser_OutputSchema(m.outputs[k])])])

\* Deserialize of Option<T>: a missing field or null is None, anything else
\* is Some of what it deserializes to
de_Option(obj, field, de(_)) ==
    IF field \notin DOMAIN obj THEN None
    ELSE IF obj[field] = JNull THEN None
    ELSE Some(de(obj[field]))

HasFields(j, fields) == j.t = "obj" /\ fields \subseteq DOMAIN j.fields
IsOptional(j, field, ty) ==
    field \in DOMAIN j.fields => j.fields[field].t \in {"null", ty}

\* the JSON values that deserialize as an InputSchema
IsInputSchemaJson(j) ==
    /\ HasFields(j, {"type", "description", "required"})
    /\ j.fields["type"].t = "str"
    /\ j.fields["description"].t = "str"
    /\ j.fields["required"].t = "bool"

\* Deserialize of InputSchema (derive)
de_InputSchema(j) ==
    InputSchema(j.fields["type"].s, j.fields["description"].s, j.fields["required"].b,
                de_Option(j.fields, "default", LAMBDA x : x))

\* the JSON values that deserialize as an OutputSchema
IsOutputSchemaJson(j) ==
    /\ HasFields(j, {"type", "description"})
    /\ j.fields["type"].t = "str"
    /\ j.fields["description"].t = "str"

\* Deserialize of OutputSchema (derive)
de_OutputSchema(j) == OutputSchema(j.fields["type"].s, j.fields["description"].s)

\* the JSON values that deserialize as a Manifest
IsManifestJson(j) ==
    /\ HasFields(j, {"name", "version", "description", "language",
                     "entry_point", "capabilities", "timeout_sec",
                     "requirements", "inputs", "outputs"})
    /\ \A f \in {"name", "version", "description", "language", "entry_point"} :
          j.fields[f].t = "str"
    /\ j.fields["capabilities"].t = "arr"
    /\ \A i \in DOMAIN j.fields["capabilities"].items : j.fields["capabilities"].items[i].t = "str"
    /\ IsOptional(j, "schema", "str")
    /\ j.fields["timeout_sec"].t = "num"
    /\ j.fields["timeout_sec"].n >= 0
    /\ j.fields["requirements"].t = "obj"
    /\ \A k \in DOMAIN j.fields["requirements"].fields : j.fields["requirements"].fields[k].t = "str"
    /\ j.fields["inputs"].t = "obj"
    /\ \A k \in DOMAIN j.fields["inputs"].fields : IsInputSchemaJson(j.fields["inputs"].fields[k])
    /\ j.fields["outputs"].t = "obj"
    /\ \A k \in DOMAIN j.fields["outputs"].fields : IsOutputSchemaJson(j.fields["outputs"].fields[k])

\* Deserialize of Manifest (derive)
de_Manifest(j) ==
    [name |-> j.fields["name"].s,
     version |-> j.fields["version"].s,
     description |-> j.fields["description"].s,
     language |-> j.fields["language"].s,
     entry_point |-> j.fields["entry_point"].s,
     capabilities |-> [i \in DOMAIN j.fields["capabilities"].items |->
                          j.fields["capabilities"].items[i].s],
     schema |-> de_Option(j.fields, "schema", LAMBDA x : x.s),
     timeout_sec |-> j.fields["timeout_sec"].n,
     requirements |-> [k \in DOMAIN j.fields["requirements"].fields |->
                          j.fields["requirements"].fields[k].s],
     inputs |-> [k \in DOMAIN j.fields["inputs"].fields |->
                    de_InputSchema(j.fields["inputs"].fields[k])],
     outputs |-> [k \in DOMAIN j.fields["outputs"].fields |->
                     de_OutputSchema(j.fields["outputs"].fields[k])]]

\* the content of a file: well-formed JSON text (the value it denotes), or
\* text that is not JSON
JsonText(v) == [wf |-> TRUE, value |-> v]
Garbage == [wf |-> FALSE]

\* serde_json::to_string_pretty(manifest)
to_string_pretty(m) == JsonText(ser_Manifest(m))

\* serde_json::from_str::<Manifest>(&content)
from_str_Manifest(content) ==
    IF ~content.wf THEN Err(Json("expected value"))
    ELSE IF ~IsManifestJson(content.value) THEN Err(Json("invalid manifest"))
    ELSE Ok(de_Manifest(content.value))

\* the paths of the model; the last one lies in a directory that does not exist
Paths == {"a.json", "b.json", "missing/c.json"}
Writable(p) == p # "missing/c.json"

\* the values an InputSchema default takes in the model
Defaults == {None, Some(JNull), Some(JArr(<<>>)), Some(JBool(FALSE))}

\* the manifests of the model: the two built-in ones, with each value of the
\* schema reference and of one input's default
VariedInput(m) == IF m.name = "codexify" THEN "tags" ELSE "parameters"
Manifests ==
    {[m EXCEPT !.schema = IF keep THEN m.schema ELSE None,
               !.inputs[VariedInput(m)].default = d] :
        m \in {generate_codexify_manifest, generate_ritual_engine_manifest},
        keep \in BOOLEAN,
        d \in Defaults}

(***************************************************************************)
(* Inputs of a call                                                        *)
(***************************************************************************)
\* a request: the length of its JSON text and whether serde can serialize it
Requests == [len : 1..MaxReq, serializable : BOOLEAN]

\* the configs a caller passes
CallerConfigs == {SubprocessConfig(1, FALSE), SubprocessConfig(5, TRUE)}

\* exit statuses of a child: a code, or none when it died of a signal
ExitCodes == {0, 2}
ExitStatuses == {[code |-> Some(c)] : c \in ExitCodes} \cup {[code |-> None]}
ExitStatus_success(s) == s.code = Some(0)
\* output.status.code().unwrap_or(-1)
ExitStatus_code_or(s) == IF s.code.some THEN s.code.val ELSE -1

Entries == {"spawn_subprocess", "run_codexify", "run_ritual_engine",
            "run_codexify_sync", "run_ritual_engine_sync"}
ToolOf(e) == IF e \in {"run_codexify", "run_codexify_sync"} THEN "codexify"
             ELSE "ritual_engine"
IsSync(e) == e \in {"run_codexify_sync", "run_ritual_engine_sync"}

VARIABLES
    entry,        \* the entry point the caller invoked
    request,      \* the request value
    cfgOpt,       \* the config argument of an adapter (Option<SubprocessConfig>)
    config,       \* the config spawn_subprocess runs with
    apc,          \* position of the entry point: "entry", "exec", "returned"
    outer,        \* what the entry point returned
    pc,           \* position of spawn_subprocess
    result,       \* what spawn_subprocess returned
    written,      \* bytes of the request written to the child's stdin
    stdinW,       \* the bridge holds the write end of the child's stdin
    outR,         \* the bridge holds the read ends of stdout and stderr
    collected,    \* stdout read so far by wait_with_output
    collectedErr, \* stderr bytes read so far by wait_with_output
    timer,        \* "off", "armed", "fired", "released"
    childState,   \* "none", "running", "exited" (not reaped), "reaped"
    exitStatus,   \* Option<ExitStatus> of the child
    killed,       \* the bridge killed the child
    childStdin,   \* the child's end of its stdin: "none", "open", "eof" (open,
                  \* a read returned end of input), "closed"
    childRead,    \* bytes of the request the child has read
    childOut,     \* chunks the child has written to stdout
    childErr,     \* bytes the child has written to stderr
    stdinPipe,    \* bytes in the stdin pipe
    stdoutPipe,   \* chunks in the stdout pipe
    stderrPipe,   \* bytes in the stderr pipe
    fs,           \* the file system: path -> Option<file content>
    saved,        \* the last save_manifest call: its arguments and result
    loaded,       \* the load_manifest call made since: its path and result
    created,      \* create_manifest_structure: the turn of its loop, its result
    ops,          \* the executor calls and process operations so far, in order
    log,          \* the debug! lines written so far
    args,         \* the arguments of the command, as passed to spawn_subprocess
    other         \* a second call of spawn_subprocess, while it is not the one
                  \* stepping: its state, or NoCall

callVars == <<entry, request, cfgOpt, config, args, apc, outer>>
execVars == <<pc, result, written, stdinW, outR, collected, collectedErr, timer>>
childVars == <<childState, exitStatus, killed, childStdin, childRead, childOut, childErr>>
pipeVars == <<stdinPipe, stdoutPipe, stderrPipe>>
manifestVars == <<fs, saved, loaded, created>>
histVars == <<ops, log>>
vars == <<callVars, execVars, childVars, pipeVars, manifestVars, histVars, other>>

\* there is no second call
NoCall == [tag |-> "NoCall"]

\* the state of the call that is stepping, as it is kept while another call
\* steps: the locals of its spawn_subprocess future, its child, its pipes
ThisCall(flag) ==
    [tag |-> "Call", ahead |-> flag,
     entry |-> entry, request |-> request, cfgOpt |-> cfgOpt,
     config |-> config, apc |-> apc, outer |-> outer,
     pc |-> pc, result |-> result, written |-> written, stdinW |-> stdinW,
     outR |-> outR, collected |-> collected, collectedErr |-> collectedErr,
     timer |-> timer,
     childState |-> childState, exitStatus |-> exitStatus, killed |-> killed,
     childStdin |-> childStdin, childRead |-> childRead,
     childOut |-> childOut, childErr |-> childErr,
     stdinPipe |-> stdinPipe, stdoutPipe |-> stdoutPipe,
     stderrPipe |-> stderrPipe,
     ops |-> ops, log |-> log, args |-> args]

\* the other call becomes the one that steps, this one waits
SwapWith(flag) ==
    /\ other.tag = "Call"
    /\ other' = ThisCall(flag)
    /\ entry' = other.entry
    /\ request' = other.request
    /\ cfgOpt' = other.cfgOpt
    /\ config' = other.config
    /\ apc' = other.apc
    /\ outer' = other.outer
    /\ pc' = other.pc
    /\ result' = other.result
    /\ written' = other.written
    /\ stdinW' = other.stdinW
    /\ outR' = other.outR
    /\ collected' = other.collected
    /\ collectedErr' = other.collectedErr
    /\ timer' = other.timer
    /\ childState' = other.childState
    /\ exitStatus' = other.exitStatus
    /\ killed' = other.killed
    /\ childStdin' = other.childStdin
    /\ childRead' = other.childRead
    /\ childOut' = other.childOut
    /\ childErr' = other.childErr
    /\ stdinPipe' = other.stdinPipe
    /\ stdoutPipe' = other.stdoutPipe
    /\ stderrPipe' = other.stderrPipe
    /\ ops' = other.ops
    /\ log' = other.log
    /\ args' = other.args
    /\ UNCHANGED manifestVars

\* no call has started
IdleInit ==
    /\ config = SubprocessConfig_default
    /\ args = <<>>
    /\ apc = "entry"
    /\ outer = Pending
    /\ pc = "idle"
    /\ created = [at |-> 0, result |-> Pending]
    /\ result = Pending
    /\ written = 0
    /\ stdinW = FALSE
    /\ outR = FALSE
    /\ collected = <<>>
    /\ collectedErr = 0
    /\ timer = "off"
    /\ childState = "none"
    /\ exitStatus = None
    /\ killed = FALSE
    /\ childStdin = "none"
    /\ childRead = 0
    /\ childOut = <<>>
    /\ childErr = 0
    /\ stdinPipe = 0
    /\ stdoutPipe = <<>>
    /\ stderrPipe = 0
    /\ ops = <<>>
    /\ log = <<>>

\* one call of an entry point, its arguments drawn from the bounded sets
Init ==
    /\ entry \in Entries
    /\ request \in Requests
    /\ cfgOpt \in {None} \cup {Some(c) : c \in CallerConfigs}
    /\ (entry = "spawn_subprocess" => cfgOpt # None)
    /\ IdleInit
    /\ other = NoCall
    /\ fs = [p \in Paths |-> None]
    /\ saved = None
    /\ loaded = None

(***************************************************************************)
(* subprocess.rs: spawn_subprocess                                         *)
(***************************************************************************)
\* dropping the Child and its pipe ends without kill_on_drop: the pipe ends
\* close, the process itself is left as it is (neither killed nor reaped)
DropHandle ==
    /\ stdinW' = FALSE
    /\ outR' = FALSE

\* (mutant) a serialization failure is swallowed and the call goes on
Serialize_swallowing ==
    /\ pc = "serialize"
    /\ pc' = "spawn"
    /\ result' = result
    /\ log' = IF config.log_io THEN Append(log, "Input JSON") ELSE log
    /\ UNCHANGED <<manifestVars, other, ops, callVars, written, stdinW, outR, collected,
                   collectedErr, timer, childVars, pipeVars>>

\* lines 20-26: serde_json::to_string(input)?
Serialize ==
    /\ pc = "serialize"
    /\ IF request.serializable
       THEN /\ pc' = "spawn"
            /\ result' = result
       ELSE /\ pc' = "done"
            /\ result' = Err(Json("key must be a string"))
    /\ log' = IF request.serializable /\ config.log_io
              THEN Append(log, "Input JSON") ELSE log
    /\ UNCHANGED <<manifestVars, other, ops, callVars, written, stdinW, outR, collected, collectedErr, timer,
                   childVars, pipeVars>>

\* lines 28-48: cmd.spawn() succeeds: a running child with three pipes
SpawnOk ==
    /\ pc = "spawn"
    /\ pc' = "write"
    /\ childState' = "running"
    /\ childStdin' = "open"
    /\ stdinW' = TRUE
    /\ outR' = TRUE
    /\ ops' = Append(ops, "spawn")
    /\ UNCHANGED <<manifestVars, other, log, callVars, result, written, collected, collectedErr, timer,
                   exitStatus, killed, childRead, childOut, childErr, pipeVars>>

\* line 48: cmd.spawn().map_err(BridgeError::Io)?
SpawnFail ==
    /\ pc = "spawn"
    /\ pc' = "done"
    /\ result' = Err(Io("No such file or directory"))
    /\ ops' = Append(ops, "spawn")
    /\ UNCHANGED <<manifestVars, other, log, callVars, written, stdinW, outR, collected, collectedErr, timer,
                   childVars, pipeVars>>

\* line 53: one write of write_all: as many bytes as the pipe takes
WriteStdin ==
    /\ pc = "write"
    /\ written < request.len
    /\ childStdin = "open"
    /\ stdinPipe < PipeCap
    /\ LET n == Min(PipeCap - stdinPipe, request.len - written) IN
        /\ written' = written + n
        /\ stdinPipe' = stdinPipe + n
    /\ ops' = Append(ops, "write")
    /\ UNCHANGED <<manifestVars, other, log, callVars, pc, result, stdinW, outR, collected, collectedErr, timer,
                   childVars, stdoutPipe, stderrPipe>>

\* (mutant) after a failed write the child is spawned again
WriteBrokenPipe_respawning ==
    /\ pc = "write"
    /\ written < request.len
    /\ childStdin = "closed"
    /\ pc' = "spawn"
    /\ DropHandle
    /\ ops' = Append(ops, "write")
    /\ UNCHANGED <<manifestVars, other, log, callVars, result, written, collected,
                   collectedErr, timer, childVars, pipeVars>>

\* lines 53-54: a write to a pipe nobody reads fails with EPIPE, and `?`
\* returns it as BridgeError::Io; the Child is dropped on the way out
WriteBrokenPipe ==
    /\ pc = "write"
    /\ written < request.len
    /\ childStdin = "closed"
    /\ pc' = "done"
    /\ result' = Err(Io("Broken pipe"))
    /\ DropHandle
    /\ ops' = Append(ops, "write")
    /\ UNCHANGED <<manifestVars, other, log, callVars, written, collected, collectedErr, timer,
                   childVars, pipeVars>>

\* (mutant) stdin is kept open across the wait
CloseStdin_leaving_open ==
    /\ pc = "write"
    /\ written = request.len
    /\ timer' = "armed"
    /\ pc' = "wait"
    /\ ops' = ops \o <<"close", "wait">>
    /\ UNCHANGED <<manifestVars, other, log, callVars, result, written, stdinW, outR,
                   collected, collectedErr, childVars, pipeVars>>

\* lines 54-59: the request is written; stdin is dropped at the end of the
\* `if let` block, and the wait starts under tokio::time::timeout
CloseStdin ==
    /\ pc = "write"
    /\ written = request.len
    /\ stdinW' = FALSE
    /\ timer' = "armed"
    /\ pc' = "wait"
    /\ ops' = ops \o <<"close", "wait">>
    /\ UNCHANGED <<manifestVars, other, log, callVars, result, written, outR, collected, collectedErr,
                   childVars, pipeVars>>

\* line 59: wait_with_output drains stdout ...
ReadStdout ==
    /\ pc = "wait"
    /\ stdoutPipe # <<>>
    /\ collected' = collected \o stdoutPipe
    /\ stdoutPipe' = <<>>
    /\ UNCHANGED <<manifestVars, other, histVars, callVars, pc, result, written, stdinW, outR, collectedErr, timer,
                   childVars, stdinPipe, stderrPipe>>

\* ... and stderr
ReadStderr ==
    /\ pc = "wait"
    /\ stderrPipe > 0
    /\ collectedErr' = collectedErr + stderrPipe
    /\ stderrPipe' = 0
    /\ UNCHANGED <<manifestVars, other, histVars, callVars, pc, result, written, stdinW, outR, collected, timer,
                   childVars, stdinPipe, stdoutPipe>>

\* serde_json::from_str::<serde_json::Value>: any one well-formed value
ValueOf(c) ==
    IF c = WrongShape THEN JArr(<<JNum(1)>>)
    ELSE JObj([response |-> JStr(DocValue(c).response)])

from_str_Value(stdout) ==
    LET toks == SelectSeq(stdout, LAMBDA c : ~IsWhitespace(c)) IN
    IF toks = <<>> THEN Err(Json("EOF while parsing a value"))
    ELSE IF Head(toks) = NotJson THEN Err(Json("expected value"))
    ELSE IF Len(toks) > 1 THEN Err(Json("trailing characters"))
    ELSE Ok(ValueOf(Head(toks)))

\* line 84: the parse at the response type O of the call
from_str_O(stdout) ==
    IF entry = "fetch_codexify_schema" THEN from_str_Value(stdout)
    ELSE from_str(stdout)

\* (mutant) the exit status is not looked at
Classify_ignoring_status(status, stdout) == from_str_O(stdout)

\* lines 67-85: the outcome of a call whose wait completed
Classify(status, stdout) ==
    IF ~ExitStatus_success(status)
    THEN Err(ProcessFailed(ExitStatus_code_or(status)))
    ELSE from_str_O(stdout)

\* (mutant) the response is parsed only when it is logged
WaitComplete_log_gated ==
    /\ pc = "wait"
    /\ childState = "exited"
    /\ stdoutPipe = <<>>
    /\ stderrPipe = 0
    /\ childState' = "reaped"
    /\ outR' = FALSE
    /\ timer' = "released"
    /\ result' = IF config.log_io THEN Classify(exitStatus.val, collected)
                 ELSE Err(InvalidOutput("not logged"))
    /\ pc' = "done"
    /\ log' = IF ExitStatus_success(exitStatus.val) /\ config.log_io
              THEN Append(log, "Output JSON") ELSE log
    /\ UNCHANGED <<manifestVars, other, ops, callVars, written, stdinW, collected,
                   collectedErr, exitStatus, killed, childStdin, childRead,
                   childOut, childErr, pipeVars>>

\* lines 59-60, 67-85: wait_with_output completes once the child has exited
\* and both streams are at end of file; the child is reaped
WaitComplete ==
    /\ pc = "wait"
    /\ childState = "exited"
    /\ stdoutPipe = <<>>
    /\ stderrPipe = 0
    /\ childState' = "reaped"
    /\ outR' = FALSE
    /\ timer' = "released"
    /\ result' = Classify(exitStatus.val, collected)
    /\ pc' = "done"
    /\ log' = IF ExitStatus_success(exitStatus.val) /\ config.log_io
              THEN Append(log, "Output JSON") ELSE log
    /\ UNCHANGED <<manifestVars, other, ops, callVars, written, stdinW, collected, collectedErr,
                   exitStatus, killed, childStdin, childRead, childOut, childErr,
                   pipeVars>>

\* line 60: wait_with_output fails: result.map_err(BridgeError::Io)?
WaitIoError ==
    /\ pc = "wait"
    /\ result' = Err(Io("wait failed"))
    /\ outR' = FALSE
    /\ timer' = "released"
    /\ pc' = "done"
    /\ UNCHANGED <<manifestVars, other, histVars, callVars, written, stdinW, collected, collectedErr,
                   childVars, pipeVars>>

\* line 61: the timeout elapses first; the wait future and the pipe ends it
\* holds are dropped
TimerFire ==
    /\ pc = "wait"
    /\ timer' = "fired"
    /\ outR' = FALSE
    /\ pc' = "kill"
    /\ UNCHANGED <<manifestVars, other, histVars, callVars, result, written, stdinW, collected, collectedErr,
                   childVars, pipeVars>>

\* (mutant) the kill is forgotten: the child is left as it is
Kill_forgotten ==
    UNCHANGED <<childState, exitStatus, killed, childStdin, other>>

\* line 62: child.kill().await: SIGKILL to the child of this call's handle,
\* then wait for its exit
Kill ==
    /\ childState' = "reaped"
    /\ other' = other
    /\ IF childState = "running"
       THEN /\ exitStatus' = Some([code |-> None])
            /\ killed' = TRUE
            /\ childStdin' = "closed"
       ELSE UNCHANGED <<exitStatus, killed, childStdin>>

\* (mutant) the kill goes to every child of the bridge
KillAndReturn_every_child ==
    /\ pc = "kill"
    /\ childState' = "reaped"
    /\ IF childState = "running"
       THEN /\ exitStatus' = Some([code |-> None])
            /\ killed' = TRUE
            /\ childStdin' = "closed"
       ELSE UNCHANGED <<exitStatus, killed, childStdin>>
    /\ other' = IF other.tag = "Call" /\ other.childState = "running"
                THEN [other EXCEPT !.childState = "exited",
                                   !.exitStatus = Some([code |-> None]),
                                   !.killed = TRUE,
                                   !.childStdin = "closed",
                                   !.stdinPipe = 0]
                ELSE other
    /\ result' = Err(Timeout(config.timeout))
    /\ pc' = "done"
    /\ ops' = Append(ops, "kill")
    /\ UNCHANGED <<manifestVars, log, callVars, written, stdinW, outR, collected,
                   collectedErr, timer, childRead, childOut, childErr, pipeVars>>

\* lines 62-63: kill the child, return the Timeout error
KillAndReturn ==
    /\ pc = "kill"
    /\ Kill
    /\ result' = Err(Timeout(config.timeout))
    /\ pc' = "done"
    /\ ops' = Append(ops, "kill")
    /\ UNCHANGED <<manifestVars, log, callVars, written, stdinW, outR, collected, collectedErr, timer,
                   childRead, childOut, childErr, pipeVars>>

(***************************************************************************)
(* The child process (environment)                                         *)
(***************************************************************************)
\* the child reads what is in its stdin pipe
ChildRead ==
    /\ childState = "running"
    /\ childStdin = "open"
    /\ stdinPipe > 0
    /\ childRead' = childRead + stdinPipe
    /\ stdinPipe' = 0
    /\ UNCHANGED <<manifestVars, other, histVars, callVars, execVars, childState, exitStatus, killed, childStdin,
                   childOut, childErr, stdoutPipe, stderrPipe>>

\* the child reads its stdin and gets end of input: the pipe is empty and
\* its write end is closed
ChildReadEOF ==
    /\ childState = "running"
    /\ childStdin = "open"
    /\ stdinPipe = 0
    /\ ~stdinW
    /\ childStdin' = "eof"
    /\ UNCHANGED <<manifestVars, other, histVars, callVars, execVars, childState, exitStatus,
                   killed, childRead, childOut, childErr, pipeVars>>

\* the child closes its stdin and runs on; unread bytes are discarded
ChildCloseStdin ==
    /\ childState = "running"
    /\ childStdin = "open"
    /\ childStdin' = "closed"
    /\ stdinPipe' = 0
    /\ UNCHANGED <<manifestVars, other, histVars, callVars, execVars, childState, exitStatus, killed, childRead,
                   childOut, childErr, stdoutPipe, stderrPipe>>

\* the child writes a chunk to stdout; it blocks while the pipe is full
ChildWriteOut ==
    /\ childState = "running"
    /\ outR
    /\ Len(childOut) < MaxOut
    /\ Len(stdoutPipe) < PipeCap
    /\ \E c \in Chunks :
        /\ childOut' = Append(childOut, c)
        /\ stdoutPipe' = Append(stdoutPipe, c)
    /\ UNCHANGED <<manifestVars, other, histVars, callVars, execVars, childState, exitStatus, killed, childStdin,
                   childRead, childErr, stdinPipe, stderrPipe>>

\* the child writes a byte to stderr; it blocks while the pipe is full
ChildWriteErr ==
    /\ childState = "running"
    /\ outR
    /\ childErr < MaxErr
    /\ stderrPipe < PipeCap
    /\ childErr' = childErr + 1
    /\ stderrPipe' = stderrPipe + 1
    /\ UNCHANGED <<manifestVars, other, histVars, callVars, execVars, childState, exitStatus, killed, childStdin,
                   childRead, childOut, stdinPipe, stdoutPipe>>

\* the child exits by itself (a code) or dies of a signal not sent by the
\* bridge (no code); its ends of the pipes close
ChildExit ==
    /\ childState = "running"
    /\ \E s \in ExitStatuses : exitStatus' = Some(s)
    /\ childState' = "exited"
    /\ childStdin' = "closed"
    /\ stdinPipe' = 0
    /\ UNCHANGED <<manifestVars, other, histVars, callVars, execVars, killed, childRead, childOut, childErr,
                   stdoutPipe, stderrPipe>>

(***************************************************************************)
(* Entry points: spawn_subprocess called directly, the tool adapters of    *)
(* codexify.rs and ritual_engine.rs, and their synchronous wrappers        *)
(***************************************************************************)
\* lines 126-127 (test_echo_subprocess): the arguments of a direct caller
CallerArgs == <<"-c", "import json, sys; ...">>

\* a caller awaits spawn_subprocess with its own config
spawn_subprocess ==
    /\ entry = "spawn_subprocess"
    /\ apc = "entry"
    /\ config' = cfgOpt.val
    /\ args' = CallerArgs
    /\ pc' = "serialize"
    /\ apc' = "exec"
    /\ ops' = Append(ops, "call")
    /\ UNCHANGED <<manifestVars, other, log, entry, request, cfgOpt, outer, result, written, stdinW, outR,
                   collected, collectedErr, timer, childVars, pipeVars>>

\* spawn_subprocess returns to that caller
spawn_subprocess_return ==
    /\ entry = "spawn_subprocess"
    /\ apc = "exec"
    /\ pc = "done"
    /\ outer' = result
    /\ apc' = "returned"
    /\ UNCHANGED <<manifestVars, other, histVars, args, entry, request, cfgOpt, config, execVars, childVars, pipeVars>>

\* config.unwrap_or_else(|| SubprocessConfig { timeout, ..Default::default() })
unwrap_or_else(opt, timeout) ==
    IF opt.some THEN opt.val
    ELSE [SubprocessConfig_default EXCEPT !.timeout = timeout]

\* the first half of an adapter: the config, then the executor is awaited
AdapterCall(tool, timeout, python_path) ==
    /\ ToolOf(entry) = tool
    /\ \/ entry \in {"run_codexify", "run_ritual_engine"} /\ apc = "entry"
       \/ apc = "runtime"
    /\ config' = unwrap_or_else(cfgOpt, timeout)
    /\ args' = <<python_path>>
    /\ pc' = "serialize"
    /\ apc' = "exec"
    /\ ops' = Append(ops, "call")
    /\ UNCHANGED <<manifestVars, other, log, entry, request, cfgOpt, outer, result, written, stdinW, outR,
                   collected, collectedErr, timer, childVars, pipeVars>>

\* (mutant) the adapter's own timeout is the executor's default one
run_codexify_default_timeout ==
    AdapterCall("codexify", 30, "guardian-backend_v2/codexify/main.py")

\* codexify.rs lines 29-43
run_codexify ==
    AdapterCall("codexify", 60, "guardian-backend_v2/codexify/main.py")

\* ritual_engine.rs lines 31-45
run_ritual_engine ==
    AdapterCall("ritual_engine", 120, "guardian-backend_v2/ritual_engine/main.py")

\* (mutant) the error arm propagates the executor's error
Envelope_propagating(res, tool) ==
    IF res.tag = "Ok"
    THEN Ok(CapabilityResult_success(res.value, tool, "1.0.0"))
    ELSE res

\* the `match result` of an adapter: both arms return Ok(envelope)
Envelope(res, tool) ==
    IF res.tag = "Ok"
    THEN Ok(CapabilityResult_success(res.value, tool, "1.0.0"))
    ELSE Ok(CapabilityResult_error(to_string(res.err), tool, "1.0.0"))

\* the second half of an adapter: the executor's outcome is wrapped
AdapterReturn ==
    /\ entry # "spawn_subprocess"
    /\ apc = "exec"
    /\ pc = "done"
    /\ outer' = Envelope(result, ToolOf(entry))
    /\ apc' = "returned"
    /\ UNCHANGED <<manifestVars, other, histVars, args, entry, request, cfgOpt, config, execVars, childVars, pipeVars>>

\* run_codexify_sync / run_ritual_engine_sync: Runtime::new() succeeds and
\* the adapter runs under block_on
RuntimeNewOk ==
    /\ IsSync(entry)
    /\ apc = "entry"
    /\ apc' = "runtime"
    /\ UNCHANGED <<manifestVars, other, histVars, args, entry, request, cfgOpt, config, outer, execVars, childVars, pipeVars>>

\* Runtime::new().map_err(BridgeError::Io)?
RuntimeNewFail ==
    /\ IsSync(entry)
    /\ apc = "entry"
    /\ outer' = Err(Io("cannot create runtime"))
    /\ apc' = "returned"
    /\ UNCHANGED <<manifestVars, other, histVars, args, entry, request, cfgOpt, config, execVars, childVars, pipeVars>>

Next ==
    \/ spawn_subprocess
    \/ spawn_subprocess_return
    \/ run_codexify
    \/ run_ritual_engine
    \/ AdapterReturn
    \/ RuntimeNewOk
    \/ RuntimeNewFail
    \/ Serialize
    \/ SpawnOk
    \/ SpawnFail
    \/ WriteStdin
    \/ WriteBrokenPipe
    \/ CloseStdin
    \/ ReadStdout
    \/ ReadStderr
    \/ WaitComplete
    \/ WaitIoError
    \/ TimerFire
    \/ KillAndReturn
    \/ ChildRead
    \/ ChildReadEOF
    \/ ChildCloseStdin
    \/ ChildWriteOut
    \/ ChildWriteErr
    \/ ChildExit

Spec == Init /\ [][Next]_vars

(***************************************************************************)
(* One direct call of spawn_subprocess under the tokio scheduler: a task   *)
(* that can run is run, and the timer of tokio::time::timeout fires; the   *)
(* child, a program of its own, owes no step                               *)
(***************************************************************************)
DirectInit ==
    /\ Init
    /\ entry = "spawn_subprocess"

\* the steps of the task that awaits spawn_subprocess
BridgeStep ==
    \/ spawn_subprocess
    \/ Serialize
    \/ SpawnOk
    \/ SpawnFail
    \/ WriteStdin
    \/ WriteBrokenPipe
    \/ CloseStdin
    \/ ReadStdout
    \/ ReadStderr
    \/ WaitComplete
    \/ WaitIoError
    \/ TimerFire
    \/ KillAndReturn
    \/ spawn_subprocess_return

\* the steps of the child process
ChildStep ==
    \/ ChildRead
    \/ ChildReadEOF
    \/ ChildCloseStdin
    \/ ChildWriteOut
    \/ ChildWriteErr
    \/ ChildExit

DirectNext ==
    \/ BridgeStep
    \/ ChildStep

DirectFairSpec == DirectInit /\ [][DirectNext]_vars /\ WF_vars(BridgeStep)

(***************************************************************************)
(* Two concurrent calls of spawn_subprocess on one tokio runtime: at any   *)
(* await point the scheduler may go on with the other call. Each call has  *)
(* its own future (its locals), Child handle and pipes; the children       *)
(* answer with one document or with nothing, and write nothing to stderr.  *)
(***************************************************************************)
\* the scheduler switches to the other call (or the other child runs next)
Swap == SwapWith(FALSE)

\* the child writes the document it answers with
ChildWriteHello ==
    /\ ChildWriteOut
    /\ childOut' = <<DocHello>>

ConcInit ==
    /\ entry = "spawn_subprocess"
    /\ request \in {r \in Requests : r.serializable}
    /\ cfgOpt = Some(SubprocessConfig(1, FALSE))
    /\ IdleInit
    /\ \E r \in {r \in Requests : r.serializable} :
          other = [ThisCall(FALSE) EXCEPT
                      !.request = r,
                      !.cfgOpt = Some(SubprocessConfig(5, TRUE))]
    /\ fs = [p \in Paths |-> None]
    /\ saved = None
    /\ loaded = None

ConcNext ==
    \/ Swap
    \/ spawn_subprocess
    \/ Serialize
    \/ SpawnOk
    \/ SpawnFail
    \/ WriteStdin
    \/ WriteBrokenPipe
    \/ CloseStdin
    \/ ReadStdout
    \/ WaitComplete
    \/ WaitIoError
    \/ TimerFire
    \/ KillAndReturn
    \/ spawn_subprocess_return
    \/ ChildRead
    \/ ChildReadEOF
    \/ ChildCloseStdin
    \/ ChildWriteHello
    \/ ChildExit

ConcSpec == ConcInit /\ [][ConcNext]_vars

(***************************************************************************)
(* Two runs of spawn_subprocess side by side that differ in config.log_io  *)
(* only (subprocess.rs lines 24-26 and 79-81 are the uses of log_io). One  *)
(* run takes a step, of the bridge or of its child; the other run then has *)
(* to take a step that brings it to the same state, the debug log and the  *)
(* toggle apart.                                                           *)
(***************************************************************************)
\* a config, its log_io toggle left out
MaskLogIo(c) == [c EXCEPT !.log_io = FALSE]

\* what a run shows apart from its debug log: its position, its process
\* operations, its child and pipes, its outcome
ObsOf(call) ==
    [call EXCEPT !.ahead = FALSE,
                 !.log = <<>>,
                 !.config = MaskLogIo(@),
                 !.cfgOpt = IF @.some THEN Some(MaskLogIo(@.val)) ELSE @]

InSync == ObsOf(ThisCall(FALSE)) = ObsOf(other)

TwinInit ==
    /\ entry = "spawn_subprocess"
    /\ request \in Requests
    /\ cfgOpt \in {Some(c) : c \in CallerConfigs}
    /\ IdleInit
    /\ other = [ThisCall(FALSE) EXCEPT !.cfgOpt.val.log_io = ~@]
    /\ fs = [p \in Paths |-> None]
    /\ saved = None
    /\ loaded = None

\* one run takes a step
LeadStep ==
    /\ InSync
    /\ ~other.ahead
    /\ DirectNext

\* it is the other run's turn
TwinSwap ==
    /\ ~InSync
    /\ ~other.ahead
    /\ SwapWith(TRUE)

\* the other run takes a step to the same state
FollowStep ==
    /\ ~InSync
    /\ other.ahead
    /\ DirectNext
    /\ InSync'

\* both runs have taken the step
Settle ==
    /\ InSync
    /\ other.ahead
    /\ other' = [other EXCEPT !.ahead = FALSE]
    /\ UNCHANGED <<manifestVars, histVars, callVars, execVars, childVars, pipeVars>>

TwinNext ==
    \/ LeadStep
    \/ TwinSwap
    \/ FollowStep
    \/ Settle

TwinSpec == TwinInit /\ [][TwinNext]_vars

(***************************************************************************)
(* codexify.rs: fetch_codexify_schema, the schema introspection call       *)
(***************************************************************************)
\* lines 74-84: the request is (), the config the default one with a
\* timeout of 10 seconds
fetch_codexify_schema ==
    /\ entry = "fetch_codexify_schema"
    /\ apc = "entry"
    /\ config' = [SubprocessConfig_default EXCEPT !.timeout = 10]
    /\ args' = <<"guardian-backend_v2/codexify/main.py", "--schema">>
    /\ pc' = "serialize"
    /\ apc' = "exec"
    /\ ops' = Append(ops, "call")
    /\ UNCHANGED <<manifestVars, other, log, entry, request, cfgOpt, outer, result, written,
                   stdinW, outR, collected, collectedErr, timer, childVars, pipeVars>>

\* (mutant) the executor's error is passed on as it is
map_err_schema_faithful(res) == res

\* lines 86-88: result.map_err(|e| InvalidOutput(format!(...)))
map_err_schema(res) ==
    IF res.tag = "Ok" THEN res
    ELSE Err(InvalidOutput("Failed to fetch schema: " \o to_string(res.err)))

\* lines 86-89: fetch_codexify_schema returns
fetch_codexify_schema_return ==
    /\ entry = "fetch_codexify_schema"
    /\ apc = "exec"
    /\ pc = "done"
    /\ outer' = map_err_schema(result)
    /\ apc' = "returned"
    /\ UNCHANGED <<manifestVars, other, histVars, args, entry, request, cfgOpt, config, execVars,
                   childVars, pipeVars>>

\* one call of fetch_codexify_schema: () always serializes
SchemaInit ==
    /\ entry = "fetch_codexify_schema"
    /\ request \in {r \in Requests : r.serializable}
    /\ cfgOpt = None
    /\ IdleInit
    /\ other = NoCall
    /\ fs = [p \in Paths |-> None]
    /\ saved = None
    /\ loaded = None

SchemaNext ==
    \/ fetch_codexify_schema
    \/ fetch_codexify_schema_return
    \/ Serialize
    \/ SpawnOk
    \/ SpawnFail
    \/ WriteStdin
    \/ WriteBrokenPipe
    \/ CloseStdin
    \/ ReadStdout
    \/ ReadStderr
    \/ WaitComplete
    \/ WaitIoError
    \/ TimerFire
    \/ KillAndReturn
    \/ ChildRead
    \/ ChildReadEOF
    \/ ChildCloseStdin
    \/ ChildWriteOut
    \/ ChildWriteErr
    \/ ChildExit

SchemaSpec == SchemaInit /\ [][SchemaNext]_vars

(***************************************************************************)
(* manifest.rs: save_manifest, load_manifest                               *)
(***************************************************************************)
\* (mutant) the file is written only if it does not exist yet
fs_write_create_new(files, p, content) ==
    IF files[p].some THEN files ELSE [files EXCEPT ![p] = Some(content)]

\* lines 44-48: the file system after fs::write(path, content)
fs_write(files, p, content) == [files EXCEPT ![p] = Some(content)]

\* lines 44-48: save_manifest(manifest, path)
save_manifest ==
    \E m \in Manifests, p \in Paths :
        /\ IF Writable(p)
           THEN /\ fs' = fs_write(fs, p, to_string_pretty(m))
                /\ saved' = Some([manifest |-> m, path |-> p, before |-> fs[p],
                                  result |-> Ok("unit")])
           ELSE /\ fs' = fs
                /\ saved' = Some([manifest |-> m, path |-> p, before |-> fs[p],
                                  result |-> Err(Io("No such file or directory"))])
        /\ loaded' = None
        /\ UNCHANGED <<created, callVars, execVars, childVars, pipeVars, histVars, other>>

\* (mutant) a missing file loads as a built-in manifest
load_manifest_result_defaulting(files, p) ==
    IF ~files[p].some THEN Ok(generate_codexify_manifest)
    ELSE from_str_Manifest(files[p].val)

\* lines 37-41: the value load_manifest(path) returns
load_manifest_result(files, p) ==
    IF ~files[p].some THEN Err(Io("No such file or directory"))
    ELSE from_str_Manifest(files[p].val)

\* lines 37-41: load_manifest(path)
load_manifest ==
    \E p \in Paths :
        /\ loaded' = Some([path |-> p, result |-> load_manifest_result(fs, p)])
        /\ UNCHANGED <<fs, saved, created, callVars, execVars, childVars, pipeVars,
                       histVars, other>>

\* the manifest store: files that exist before the first call
ManifestInit ==
    /\ entry = "spawn_subprocess"
    /\ request = [len |-> 1, serializable |-> TRUE]
    /\ cfgOpt = Some(SubprocessConfig_default)
    /\ IdleInit
    /\ other = NoCall
    /\ fs \in [Paths -> {None, Some(Garbage),
                         Some(JsonText(JObj([response |-> JStr("hello")]))),
                         Some(to_string_pretty(generate_ritual_engine_manifest))}]
    /\ \A p \in Paths : ~Writable(p) => fs[p] = None
    /\ saved = None
    /\ loaded = None

ManifestNext ==
    \/ save_manifest
    \/ load_manifest

ManifestSpec == ManifestInit /\ [][ManifestNext]_vars

(***************************************************************************)
(* manifest.rs: generate_all_manifests, create_manifest_structure          *)
(***************************************************************************)
\* (mutant) both built-in manifests are listed under one key
generate_all_manifests_one_key ==
    << <<"codexify", generate_codexify_manifest>>,
       <<"codexify", generate_ritual_engine_manifest>> >>

\* lines 177-182
generate_all_manifests ==
    << <<"codexify", generate_codexify_manifest>>,
       <<"ritual_engine", generate_ritual_engine_manifest>> >>

\* line 186
manifests_dir == "threadspace/crates/cli_bridge/manifests"

\* line 191: format!("{}/{}.json", manifests_dir, name)
ManifestPath(name) == manifests_dir \o "/" \o name \o ".json"

\* the files of the manifests directory in the model: one per listed key,
\* and one the bridge does not manage
StructurePaths ==
    {ManifestPath(generate_all_manifests[i][1]) :
        i \in DOMAIN generate_all_manifests}
    \cup {ManifestPath("codexify")} \cup {manifests_dir \o "/notes.txt"}

\* lines 186-187: fs::create_dir_all(manifests_dir)?
create_manifest_structure ==
    /\ created = [at |-> 0, result |-> Pending]
    /\ \E ok \in BOOLEAN :
          created' = IF ok THEN [at |-> 1, result |-> Pending]
                     ELSE [at |-> 0, result |-> Err(Io("Permission denied"))]
    /\ UNCHANGED <<fs, saved, loaded, callVars, execVars, childVars, pipeVars,
                   histVars, other>>

\* lines 189-192: one turn of the loop: save_manifest(&manifest, &path)?
create_manifest_structure_save ==
    /\ created.result = Pending
    /\ created.at \in DOMAIN generate_all_manifests
    /\ LET m == generate_all_manifests[created.at][2]
           p == ManifestPath(generate_all_manifests[created.at][1])
       IN \E ok \in BOOLEAN :
            IF ok
            THEN /\ fs' = fs_write(fs, p, to_string_pretty(m))
                 /\ saved' = Some([manifest |-> m, path |-> p, before |-> fs[p],
                                   result |-> Ok("unit")])
                 /\ created' = [created EXCEPT !.at = @ + 1]
            ELSE /\ fs' = fs
                 /\ saved' = Some([manifest |-> m, path |-> p, before |-> fs[p],
                                   result |-> Err(Io("Permission denied"))])
                 /\ created' = [created EXCEPT
                                   !.result = Err(Io("Permission denied"))]
    /\ loaded' = None
    /\ UNCHANGED <<callVars, execVars, childVars, pipeVars, histVars, other>>

\* line 194: Ok(())
create_manifest_structure_return ==
    /\ created.result = Pending
    /\ created.at = Len(generate_all_manifests) + 1
    /\ created' = [created EXCEPT !.result = Ok("unit")]
    /\ UNCHANGED <<fs, saved, loaded, callVars, execVars, childVars, pipeVars,
                   histVars, other>>

\* the manifests directory before the call: any of its files may exist
StructureInit ==
    /\ entry = "spawn_subprocess"
    /\ request = [len |-> 1, serializable |-> TRUE]
    /\ cfgOpt = Some(SubprocessConfig_default)
    /\ IdleInit
    /\ other = NoCall
    /\ fs \in [StructurePaths ->
                  {None, Some(Garbage),
                   Some(to_string_pretty(generate_codexify_manifest)),
                   Some(to_string_pretty(generate_ritual_engine_manifest))}]
    /\ saved = None
    /\ loaded = None

StructureNext ==
    \/ create_manifest_structure
    \/ create_manifest_structure_save
    \/ create_manifest_structure_return

StructureSpec == StructureInit /\ [][StructureNext]_vars

(***************************************************************************)
(* Vocabulary of the properties                                            *)
(***************************************************************************)
Returned == pc = "done"
IsErr(kind) == result.tag = "Err" /\ result.err.kind = kind
\* the wait itself failed in the operating system (not the child's doing)
WaitFailed == result = Err(Io("wait failed"))
\* the child ended by itself (exit code or foreign signal), not by the bridge
ExitedByItself == exitStatus.some /\ ~killed
\* the child wrote exactly one well-formed value of the expected shape
\* (surrounding whitespace aside)
ExactlyOneDoc(out) ==
    LET toks == SelectSeq(out, LAMBDA c : c # Newline) IN
    Len(toks) = 1 /\ toks[1] \in {DocHello, DocBye}
TheDoc(out) == SelectSeq(out, LAMBDA c : c # Newline)[1]

(***************************************************************************)
(* C1: when the child does not exit within the timeout (here: it is still  *)
(* running when the call returns, or the bridge had to kill it), the call  *)
(* returns Timeout carrying config.timeout, whatever the child did with    *)
(* its stdin and stdout.                                                   *)
(***************************************************************************)
C1_TimeoutWheneverChildDoesNotExit ==
    (Returned /\ ~WaitFailed /\ (childState = "running" \/ killed))
        => result = Err(Timeout(config.timeout))

(***************************************************************************)
(* C2: whenever spawn_subprocess returns Timeout, its child is no longer   *)
(* running: it has been killed (or had exited) and is reaped.              *)
(***************************************************************************)
C2_TimeoutLeavesNoChild ==
    (Returned /\ IsErr("Timeout")) => childState = "reaped"

C2_Witness == Returned /\ IsErr("Timeout") /\ killed /\ childOut # <<>>

(***************************************************************************)
(* C3: a child that exits 0 (before the timeout fires) having written      *)
(* exactly one well-formed value of the expected shape makes the call      *)
(* return Ok of that value, whether or not it read its stdin.              *)
(***************************************************************************)
C3_OkForWellFormedOutput ==
    (/\ Returned /\ ~WaitFailed /\ timer # "fired"
     /\ ExitedByItself /\ ExitStatus_success(exitStatus.val)
     /\ ExactlyOneDoc(childOut))
        => result = Ok(DocValue(TheDoc(childOut)))

(***************************************************************************)
(* C4: a child that exits non-zero with code c before the timeout makes    *)
(* the call return ProcessFailed(c), or ProcessFailed(-1) when it died of  *)
(* a signal, whatever it wrote and whether or not it read its stdin.       *)
(***************************************************************************)
C4_ProcessFailedForNonZeroExit ==
    (/\ Returned /\ ~WaitFailed /\ timer # "fired"
     /\ ExitedByItself /\ ~ExitStatus_success(exitStatus.val))
        => result = Err(ProcessFailed(ExitStatus_code_or(exitStatus.val)))

(***************************************************************************)
(* C5: a child that exits 0 with a stdout that is not exactly one value of *)
(* the expected shape makes the call return the InvalidOutput variant.     *)
(* Stated for the calls whose wait completed (request fully written, timer *)
(* not fired).                                                             *)
(***************************************************************************)
C5_InvalidOutputForBadStdout ==
    (/\ Returned /\ ~WaitFailed /\ timer = "released"
     /\ ExitedByItself /\ ExitStatus_success(exitStatus.val)
     /\ ~ExactlyOneDoc(childOut))
        => IsErr("InvalidOutput")

(***************************************************************************)
(* C6: on every return other than the timeout one, the child (if one was   *)
(* spawned) has terminated and been reaped and the bridge's pipe ends are  *)
(* closed.                                                                 *)
(***************************************************************************)
C6_NoChildLeftOnReturn ==
    (Returned /\ ~IsErr("Timeout"))
        => /\ childState \in {"none", "reaped"}
           /\ ~stdinW
           /\ ~outR

(***************************************************************************)
(* C7: every envelope an adapter returns has success true exactly when     *)
(* data is present and exactly when error is absent.                       *)
(***************************************************************************)
C7_EnvelopeExclusive ==
    (apc = "returned" /\ entry # "spawn_subprocess" /\ outer.tag = "Ok")
        => /\ outer.value.success <=> outer.value.data.some
           /\ outer.value.success <=> ~outer.value.error.some

C7_Witness ==
    /\ apc = "returned" /\ entry = "run_ritual_engine" /\ outer.tag = "Ok"
    /\ IsErr("ProcessFailed")
    /\ ~outer.value.success

(***************************************************************************)
(* C8: an adapter returns Ok(envelope) for every executor error, with      *)
(* success false and a non-empty message; a synchronous wrapper returns    *)
(* Err only when the runtime could not be created (the executor never      *)
(* ran).                                                                   *)
(***************************************************************************)
C8_AdaptersNeverRaise ==
    (apc = "returned" /\ entry # "spawn_subprocess")
        => /\ outer.tag = "Err" =>
                 IsSync(entry) /\ pc = "idle" /\ outer.err.kind = "Io"
           /\ result.tag = "Err" =>
                 /\ outer.tag = "Ok"
                 /\ ~outer.value.success
                 /\ outer.value.error.some
                 /\ Len(outer.value.error.val) > 0

C8_Witness ==
    /\ apc = "returned" /\ entry = "run_codexify_sync"
    /\ IsErr("Timeout")
    /\ outer.tag = "Ok"

(***************************************************************************)
(* C10: spawn_subprocess returns a success value only if the child exited  *)
(* by itself with status 0, the timer had not fired, and the value is the  *)
(* parse of everything the child wrote to stdout.                          *)
(***************************************************************************)
C10_SuccessOnlyFromCompleteOutput ==
    (Returned /\ result.tag = "Ok")
        => /\ ExitedByItself
           /\ ExitStatus_success(exitStatus.val)
           /\ timer # "fired"
           /\ collected = childOut
           /\ ExactlyOneDoc(childOut)
           /\ result.value = DocValue(TheDoc(childOut))

C10_Witness ==
    /\ Returned /\ result = Ok([response |-> "bye"])
    /\ childOut = <<DocBye, Newline>>

(***************************************************************************)
(* C9: round trip: after save_manifest(m, p) succeeded, load_manifest(p)   *)
(* returns a manifest equal to m, for every manifest m, whatever the       *)
(* default of its input schemas (absent, null or another value).           *)
(***************************************************************************)
SavedThenLoaded ==
    /\ saved.some /\ saved.val.result.tag = "Ok"
    /\ loaded.some /\ loaded.val.path = saved.val.path

C9_SaveLoadRoundTrip ==
    SavedThenLoaded => loaded.val.result = Ok(saved.val.manifest)

(***************************************************************************)
(* C11: a call makes one attempt: spawn is attempted at most once and      *)
(* never again after a failure, and an adapter invokes the executor        *)
(* exactly once.                                                           *)
(***************************************************************************)
Count(op) == Len(SelectSeq(ops, LAMBDA o : o = op))

C11_ExactlyOneAttempt ==
    /\ Count("spawn") <= 1
    /\ Count("call") <= 1
    /\ (apc = "returned" /\ outer.tag = "Ok") => Count("call") = 1
    /\ (Returned /\ result.tag = "Ok") => Count("spawn") = 1

C11_Witness ==
    /\ apc = "returned" /\ entry = "run_codexify"
    /\ IsErr("Io") /\ result.err.detail = "Broken pipe"
    /\ childState = "running"
    /\ Count("spawn") = 1

(***************************************************************************)
(* C20: when the request cannot be serialized, spawn_subprocess returns    *)
(* the serialization error and has spawned nothing: no process, no pipe,   *)
(* no timer.                                                               *)
(***************************************************************************)
C20_SerializationFailureSpawnsNothing ==
    (Returned /\ ~request.serializable)
        => /\ IsErr("Json")
           /\ Count("spawn") = 0
           /\ childState = "none"
           /\ childStdin = "none"
           /\ ~stdinW /\ ~outR
           /\ stdinPipe = 0 /\ stdoutPipe = <<>> /\ stderrPipe = 0
           /\ timer = "off"
           /\ ops = <<"call">>

C20_Witness ==
    /\ Returned /\ ~request.serializable /\ IsErr("Json")
    /\ apc = "returned" /\ entry = "spawn_subprocess" /\ outer = result

(***************************************************************************)
(* C15: in every call that reaches the wait, the whole request has been    *)
(* written and the bridge's end of the child's stdin is closed before the  *)
(* wait starts; a child that reads to the end of its input has then read   *)
(* the full request, and is never left waiting: its pipe holds the rest of *)
(* the request or is at end of input.                                      *)
(***************************************************************************)
C15_StdinClosedBeforeWait ==
    /\ "wait" \in {ops[i] : i \in DOMAIN ops} =>
          /\ written = request.len
          /\ ~stdinW
          /\ childStdin = "open" => childRead + stdinPipe = request.len
    /\ childStdin = "eof" => childRead = request.len

C15_Witness ==
    /\ pc = "wait" /\ childStdin = "eof" /\ childState = "running"
    /\ request.len = MaxReq /\ childRead = MaxReq

(***************************************************************************)
(* C19 (as claimed): fetch_codexify_schema hands the executor's Timeout    *)
(* and ProcessFailed errors to its caller as they are.                     *)
(***************************************************************************)
C19_SchemaErrorsFaithful ==
    (apc = "returned" /\ (IsErr("Timeout") \/ IsErr("ProcessFailed")))
        => outer = result

(***************************************************************************)
(* C19 (amended): fetch_codexify_schema returns every executor error as    *)
(* InvalidOutput, whose message is "Failed to fetch schema: " followed by  *)
(* the display of the executor's error; a success is passed on unchanged.  *)
(***************************************************************************)
C19_SchemaErrorsWrapped ==
    apc = "returned" =>
        IF result.tag = "Ok" THEN outer = result
        ELSE outer = Err(InvalidOutput("Failed to fetch schema: "
                                       \o to_string(result.err)))

C19_Witness ==
    /\ apc = "returned" /\ IsErr("Timeout")
    /\ outer = Err(InvalidOutput(
           "Failed to fetch schema: Process timeout after 10s"))

(***************************************************************************)
(* C16: save_manifest(m, p) overwrites: a successful save leaves at p      *)
(* exactly the serialization of m, whatever was there before, and changes  *)
(* no other file; a failed save changes no file; no other operation of the *)
(* manifest store changes a file.                                          *)
(***************************************************************************)
C16_SaveOverwrites ==
    [][(saved' # saved \/ fs' # fs) =>
          /\ saved'.some
          /\ saved'.val.before = fs[saved'.val.path]
          /\ fs' = IF saved'.val.result.tag = "Ok"
                   THEN [fs EXCEPT ![saved'.val.path] =
                                    Some(to_string_pretty(saved'.val.manifest))]
                   ELSE fs]_vars

C16_Witness ==
    /\ saved.some /\ saved.val.result.tag = "Ok"
    /\ saved.val.before = Some(Garbage)
    /\ fs[saved.val.path] = Some(to_string_pretty(saved.val.manifest))
    /\ \E q \in Paths \ {saved.val.path} : fs[q] = Some(Garbage)

(***************************************************************************)
(* C17: load_manifest(p) returns an I/O error when p is missing and a JSON *)
(* error when the content of p is not a manifest document, never a         *)
(* manifest; and a load, whatever it returns, changes no file.             *)
(***************************************************************************)
NotAManifest(content) == ~content.wf \/ ~IsManifestJson(content.value)

C17_LoadFailsCleanly ==
    /\ [](loaded.some =>
            LET p == loaded.val.path
                r == loaded.val.result
            IN /\ ~fs[p].some => r.tag = "Err" /\ r.err.kind = "Io"
               /\ (fs[p].some /\ NotAManifest(fs[p].val))
                     => r.tag = "Err" /\ r.err.kind = "Json")
    /\ [][(loaded' # loaded /\ loaded'.some) => fs' = fs]_vars

C17_Witness ==
    /\ loaded.some
    /\ fs[loaded.val.path] = Some(JsonText(JObj([response |-> JStr("hello")])))
    /\ loaded.val.result.tag = "Err"

(***************************************************************************)
(* C18: the keys of generate_all_manifests are pairwise distinct and each  *)
(* equals the name of its manifest; create_manifest_structure writes each  *)
(* manifest to a file of its own, and no later turn of the loop overwrites *)
(* the file of an earlier one.                                             *)
(***************************************************************************)
C18_DefaultsHaveOwnFiles ==
    LET all == generate_all_manifests IN
    /\ \A i, j \in DOMAIN all :
          i # j => /\ all[i][1] # all[j][1]
                   /\ ManifestPath(all[i][1]) # ManifestPath(all[j][1])
    /\ \A i \in DOMAIN all : all[i][1] = all[i][2].name
    /\ \A i \in DOMAIN all :
          created.at > i =>
              fs[ManifestPath(all[i][1])] = Some(to_string_pretty(all[i][2]))
    /\ created.result.tag = "Ok" => created.at = Len(all) + 1

C18_Witness ==
    /\ created.result.tag = "Ok"
    /\ saved.some /\ saved.val.before = Some(Garbage)
    /\ fs[ManifestPath("codexify")]
         = Some(to_string_pretty(generate_codexify_manifest))
    /\ fs[ManifestPath("ritual_engine")]
         = Some(to_string_pretty(generate_ritual_engine_manifest))

(***************************************************************************)
(* C14: every call of spawn_subprocess eventually returns an outcome,      *)
(* whatever the child does, a child that never reads its stdin while the   *)
(* request is larger than the pipe included.                               *)
(***************************************************************************)
C14_EveryCallReturns == <>(apc = "returned" /\ outer # Pending)

(***************************************************************************)
(* C13: log_io has no effect on results: of two runs of spawn_subprocess   *)
(* that differ only in config.log_io, whenever one takes a step (its own   *)
(* or its child's) the other can take a step to the same state, the debug  *)
(* log apart; so against the same child behaviour both go through the      *)
(* same process operations and return the same outcome.                    *)
(***************************************************************************)
C13_LogIoChangesNothing ==
    /\ (other.ahead /\ ~InSync) => ENABLED FollowStep
    /\ InSync => /\ ops = other.ops
                 /\ outer = other.outer
                 /\ result = other.result
                 /\ config.log_io # other.config.log_io \/ apc = "entry"

C13_Witness ==
    /\ InSync /\ other.ahead
    /\ apc = "returned" /\ outer = Ok([response |-> "hello"])
    /\ other.outer = outer /\ other.ops = ops
    /\ log = <<>> /\ other.log = <<"Input JSON", "Output JSON">>

(***************************************************************************)
(* C12: concurrent calls of spawn_subprocess are independent: a step of    *)
(* one call or of its child changes nothing of the other call, its child   *)
(* and its pipes; a child is killed only by the timeout of its own call;   *)
(* and each call's outcome is the one its own child's behaviour gives:     *)
(* Timeout when its own timer fired, otherwise the classification of its   *)
(* own child's exit status and output.                                     *)
(***************************************************************************)
OwnOutcome(c) ==
    /\ c.killed => /\ c.timer = "fired"
                   /\ c.result = Err(Timeout(c.config.timeout))
    /\ (c.pc = "done" /\ c.timer = "fired")
          => c.result = Err(Timeout(c.config.timeout))
    /\ (c.pc = "done" /\ c.timer = "released" /\ c.result.tag = "Ok")
          => /\ c.exitStatus = Some([code |-> Some(0)])
             /\ ~c.killed
             /\ c.collected = c.childOut
             /\ c.result = from_str(c.childOut)
    /\ (c.pc = "done" /\ c.result.tag = "Err"
            /\ c.result.err.kind = "ProcessFailed")
          => /\ c.exitStatus.some
             /\ c.result = Err(ProcessFailed(ExitStatus_code_or(c.exitStatus.val)))

C12_CallsIndependent ==
    /\ [](OwnOutcome(ThisCall(FALSE)) /\ OwnOutcome(other))
    /\ [][\/ other' = other
          \/ /\ other' = ThisCall(FALSE)
             /\ ThisCall(FALSE)' = other]_vars

C12_Witness ==
    /\ apc = "returned" /\ outer = Ok([response |-> "hello"])
    /\ ~killed /\ config.timeout = 1
    /\ other.apc = "returned" /\ other.outer = Err(Timeout(5))
    /\ other.killed

(***************************************************************************)
(* C21: an adapter that has called the executor, when it was called        *)
(* itself without a config, applies the timeout_sec of its                 *)
(* tool's built-in manifest (codexify 60 s, ritual_engine 120 s), also as  *)
(* the duration of its Timeout error; called with a config it uses the     *)
(* caller's config unchanged; and the path it runs is the manifest's       *)
(* entry_point.                                                            *)
(***************************************************************************)
ManifestOf(tool) ==
    IF tool = "codexify" THEN generate_codexify_manifest
    ELSE generate_ritual_engine_manifest

C21_AdapterAgreesWithManifest ==
    (entry # "spawn_subprocess" /\ Count("call") = 1) =>
        LET m == ManifestOf(ToolOf(entry)) IN
        /\ m.name = ToolOf(entry)
        /\ ~cfgOpt.some => config.timeout = m.timeout_sec
        /\ cfgOpt.some => config = cfgOpt.val
        /\ args = <<m.entry_point>>
        /\ IsErr("Timeout") => result = Err(Timeout(
               IF cfgOpt.some THEN cfgOpt.val.timeout ELSE m.timeout_sec))

C21_Witness ==
    /\ apc = "returned" /\ entry = "run_codexify" /\ cfgOpt = None
    /\ result = Err(Timeout(60))
    /\ args = <<generate_codexify_manifest.entry_point>>
    /\ generate_codexify_manifest.timeout_sec = 60

====
